---- MODULE Spec2Model ----
(***************************************************************************)
(* Model of validating_base: the metaclass ValidatingBaseClassMeta, the    *)
(* structural self-check ValidatingBaseClass._validate_self, the attribute *)
(* interception ValidatingBaseClass.__getattribute__ and the call wrapper  *)
(* validated_decorated.                                                    *)
(*                                                                         *)
(* Spec      : classes are created through the metaclass, instantiated     *)
(*             and their attributes are read.                              *)
(* SpecBuild : Spec without the attribute reads.                           *)
(* SpecCall  : one call through the wrapper built by validated_decorated,  *)
(*             step by step.                                               *)
(***************************************************************************)
EXTENDS Integers, Sequences, FiniteSets, TLC

VARIABLES
    classes,     \* the class objects, in creation order; classes[1] is ValidatingBaseClass
    instances,   \* the instantiations made so far, in order, each with its result
    lastGet,     \* the last attribute read on an instance and what it returned
    call,        \* the inputs of the call through the wrapper (function, validator, arguments)
    pc,          \* position inside validated_decorated.outer.inner
    bound,       \* signature.bind(*args, **kwargs).arguments
    formatted,   \* formatted_args
    trace,       \* the calls inner has made so far
    outcome      \* what the caller of inner observes

vars == <<classes, instances, lastGet, call, pc, bound, formatted, trace, outcome>>
heapVars == <<classes, instances, lastGet>>
callVars == <<call, pc, bound, formatted, trace, outcome>>

(***************************************************************************)
(* Bounds                                                                  *)
(***************************************************************************)
MaxClasses == 2      \* user classes created besides ValidatingBaseClass
MaxInstances == 2    \* instantiations attempted
MaxParams == 2       \* parameters of the wrapped method

(***************************************************************************)
(* Values held by class attributes                                         *)
(***************************************************************************)
Methods == {"a", "b"}
ValidatorName == [m \in Methods |-> IF m = "a" THEN "validate_a" ELSE "validate_b"]
AttrNames == Methods \cup {"validate_a", "validate_b", "required_methods", "validated_methods"}

Val(k, v, a, items) == [k |-> k, validated |-> v, abstract |-> a, items |-> items]
Absent == Val("absent", FALSE, FALSE, <<>>)
NoneVal == Val("none", FALSE, FALSE, <<>>)
IntVal == Val("int", FALSE, FALSE, <<>>)
Func(v, a) == Val("func", v, a, <<>>)
List(items) == Val("list", FALSE, FALSE, items)

\* callable(x)
Callable(x) == x.k = "func"
\* x is None, also what getattr(self, name, None) gives for a missing attribute
IsNone(x) == x.k \in {"none", "absent"}

Range(s) == {s[i] : i \in 1..Len(s)}
Contains(s, x) == \E i \in 1..Len(s) : s[i] = x
Min(S) == CHOOSE x \in S : \A y \in S : x <= y

\* list.remove(x): drops the first occurrence
Remove(s, x) ==
    LET i == Min({j \in 1..Len(s) : s[j] = x})
    IN  [j \in 1..(Len(s) - 1) |-> IF j < i THEN s[j] ELSE s[j + 1]]

(***************************************************************************)
(* Class bodies: the namespace of a class statement, in definition order   *)
(***************************************************************************)
Def(n, v) == [n |-> n, v |-> v]

ClassBodies == {
    <<>>,
    << Def("validate_a", Func(FALSE, FALSE)), Def("a", Func(TRUE, TRUE)) >>,
    << Def("a", Func(FALSE, FALSE)) >>,
    << Def("a", Func(TRUE, FALSE)) >>,
    << Def("a", Func(TRUE, FALSE)), Def("validate_a", IntVal) >>,
    << Def("required_methods", List(<<>>)) >>,
    << Def("b", Func(TRUE, FALSE)), Def("validate_b", Func(FALSE, FALSE)) >>,
    << Def("a", NoneVal) >>,
    << Def("validated_methods", List(<<"a", "b">>)), Def("b", Func(FALSE, FALSE)) >> }

\* the attrs dict the class statement hands to the metaclass
BodyAttrs(body) ==
    [n \in AttrNames |->
        IF \E i \in 1..Len(body) : body[i].n = n
        THEN body[CHOOSE i \in 1..Len(body) : body[i].n = n].v
        ELSE Absent]

(***************************************************************************)
(* Method resolution order (C3 linearisation, done by type.__new__)        *)
(***************************************************************************)
InTail(x, s) == \E i \in 2..Len(s) : s[i] = x

RECURSIVE DropEmpty(_)
DropEmpty(seqs) ==
    IF Len(seqs) = 0 THEN <<>>
    ELSE IF Len(Head(seqs)) = 0 THEN DropEmpty(Tail(seqs))
    ELSE <<Head(seqs)>> \o DropEmpty(Tail(seqs))

\* 0 in the result marks "Cannot create a consistent method resolution order"
RECURSIVE C3Merge(_)
C3Merge(seqs) ==
    LET ne == DropEmpty(seqs)
    IN  IF Len(ne) = 0 THEN <<>>
        ELSE LET cands == {i \in 1..Len(ne) : \A j \in 1..Len(ne) : ~InTail(Head(ne[i]), ne[j])}
             IN  IF cands = {} THEN <<0>>
                 ELSE LET h == Head(ne[Min(cands)])
                      IN  <<h>> \o C3Merge([k \in 1..Len(ne) |->
                                    IF Head(ne[k]) = h THEN Tail(ne[k]) ELSE ne[k]])

Linearize(cs, id, bases) ==
    <<id>> \o C3Merge([i \in 1..Len(bases) |-> cs[bases[i]].mro] \o <<bases>>)

\* ordinary attribute lookup on a class: the first class of the MRO that has it
Owner(cs, mro, name) ==
    LET hits == {i \in 1..Len(mro) : cs[mro[i]].attrs[name].k # "absent"}
    IN  IF hits = {} THEN 0 ELSE mro[Min(hits)]

Lookup(cs, mro, name) ==
    IF Owner(cs, mro, name) = 0 THEN Absent ELSE cs[Owner(cs, mro, name)].attrs[name]

(***************************************************************************)
(* ValidatingBaseClassMeta.__new__                                          *)
(***************************************************************************)
\* the loop "for attr_name, attr_value in attrs.items()" from position i on
RECURSIVE CollectMarked(_, _, _, _)
CollectMarked(body, i, vm, rm) ==
    IF i > Len(body) THEN [vm |-> vm, rm |-> rm]
    ELSE LET n == body[i].n
             v == body[i].v
             vm1 == IF v.validated /\ ~Contains(vm, n) THEN Append(vm, n) ELSE vm
             rm1 == IF v.abstract /\ ~Contains(rm, n) THEN Append(rm, n) ELSE rm
         IN  CollectMarked(body, i + 1, vm1, rm1)

\* Abstracts with the inherited abstract names forgotten
Abstracts_OwnOnly(cs, mro, bases, attrs) ==
    {n \in AttrNames : attrs[n].abstract}

\* abc.ABCMeta.__new__: the names that are still abstract in the new class
Abstracts(cs, mro, bases, attrs) ==
    {n \in AttrNames : attrs[n].abstract}
    \cup {n \in UNION {cs[bases[i]].abstractmethods : i \in 1..Len(bases)} :
            (IF attrs[n].k # "absent" THEN attrs[n] ELSE Lookup(cs, Tail(mro), n)).abstract}

MetaNew(cs, id, bases, body) ==
    LET attrs0 == BodyAttrs(body)
        required0 == attrs0["required_methods"].items
        validated0 == attrs0["validated_methods"].items
        marked == CollectMarked(body, 1, validated0, required0)
        attrs1 == [attrs0 EXCEPT
                     !["validated_methods"] = IF marked.vm # validated0 THEN List(marked.vm) ELSE @,
                     !["required_methods"] = IF marked.rm # required0 THEN List(marked.rm) ELSE @]
        \* required_method.__isabstractmethod__ = True for every callable required method
        attrs2 == [n \in AttrNames |->
                     IF Contains(marked.rm, n) /\ Callable(attrs1[n])
                     THEN [attrs1[n] EXCEPT !.abstract = TRUE] ELSE attrs1[n]]
        mro == Linearize(cs, id, bases)
    IN  [ bases |-> bases,
          mro |-> mro,
          attrs |-> attrs2,
          declared |-> {body[i].n : i \in 1..Len(body)},
          abstractmethods |-> Abstracts(cs, mro, bases, attrs2),
          self_validated |-> FALSE,
          \* __init__ = validate_init(getattr(new_class, "__init__")): one more layer
          \* around the __init__ of the first base
          initLayers |-> IF Len(bases) = 0 THEN 1 ELSE cs[bases[1]].initLayers + 1 ]

\* class ValidatingBaseClass(metaclass=ValidatingBaseClassMeta)
BaseBody == << Def("required_methods", List(<<>>)), Def("validated_methods", List(<<>>)) >>
ValidatingBaseClass == MetaNew(<<>>, 1, <<>>, BaseBody)

\* the base lists of a class statement: ValidatingBaseClass alone, or one or more
\* distinct classes derived from it
BaseLists(n) ==
    {<<1>>} \cup
    {bs \in UNION {[1..k -> 2..n] : k \in 1..(n - 1)} :
        \A i, j \in 1..Len(bs) : i # j => bs[i] # bs[j]}

CreateClass ==
    /\ Len(classes) < MaxClasses + 1
    /\ \E bases \in BaseLists(Len(classes)), body \in ClassBodies :
         LET id == Len(classes) + 1
             new == MetaNew(classes, id, bases, body)
         IN  /\ ~Contains(Linearize(classes, id, bases), 0)
             /\ classes' = Append(classes, new)
    /\ UNCHANGED <<instances, lastGet>>
    /\ UNCHANGED callVars

(***************************************************************************)
(* ValidatingBaseClass._validate_self                                      *)
(***************************************************************************)
Result(cs, exc, about) == [cs |-> cs, exc |-> exc, about |-> about]

\* the loop "for validated_method_name in self.validated_methods" with the list
\* iterator at position idx; the list is the live object the class attribute holds
RECURSIVE ValidatedLoop(_, _, _)
ValidatedLoop(cs, mro, idx) ==
    LET owner == Owner(cs, mro, "validated_methods")
        lst == cs[owner].attrs["validated_methods"].items
    IN  IF idx > Len(lst) THEN Result(cs, "none", "")
        ELSE LET name == lst[idx]
                 method == Lookup(cs, mro, name)
                 validator == Lookup(cs, mro, ValidatorName[name])
             IN  IF IsNone(method)
                 THEN ValidatedLoop(
                        [cs EXCEPT ![owner].attrs["validated_methods"].items = Remove(lst, name)],
                        mro, idx + 1)
                 ELSE IF ~Callable(method) THEN Result(cs, "TypeError", name)
                 ELSE IF IsNone(validator) THEN Result(cs, "NotImplementedError", ValidatorName[name])
                 ELSE IF ~Callable(validator) THEN Result(cs, "TypeError", ValidatorName[name])
                 ELSE ValidatedLoop(cs, mro, idx + 1)

ValidateSelf(cs, c) ==
    LET mro == cs[c].mro
        req == Lookup(cs, mro, "required_methods").items
        bad == {i \in 1..Len(req) : ~Callable(Lookup(cs, mro, req[i]))}
    IN  IF bad # {} THEN Result(cs, "TypeError", req[Min(bad)])
        ELSE ValidatedLoop(cs, mro, 1)

(***************************************************************************)
(* The wrapped __init__ (validate_init.inner), one layer per class of the  *)
(* chain, around the original __init__                                     *)
(***************************************************************************)
Attempt(c, cs, exc, about, flag, runs, body) ==
    [cls |-> c, cs |-> cs, exc |-> exc, about |-> about,
     self_validated |-> flag, checkRuns |-> runs, bodyRan |-> body]

RECURSIVE RunInit(_, _, _, _, _)
RunInit(cs, c, layers, flag, runs) ==
    IF layers = 0 THEN Attempt(c, cs, "none", "", flag, runs, TRUE)
    ELSE IF ~flag
    THEN LET r == ValidateSelf(cs, c)
         IN  IF r.exc # "none"
             THEN Attempt(c, r.cs, r.exc, r.about, FALSE, runs + 1, FALSE)
             ELSE RunInit(r.cs, c, layers - 1, TRUE, runs + 1)
    ELSE RunInit(cs, c, layers - 1, flag, runs)

\* cls(): object.__new__ refuses a class with abstract methods, then __init__ runs
Construct(cs, c) ==
    IF cs[c].abstractmethods # {}
    THEN Attempt(c, cs, "AbstractClassError", "", FALSE, 0, FALSE)
    ELSE RunInit(cs, c, cs[c].initLayers, cs[c].self_validated, 0)

\* cls() for a class derived from ValidatingBaseClass
Instantiate ==
    /\ Len(instances) < MaxInstances
    /\ \E c \in 2..Len(classes) :
         LET r == Construct(classes, c)
         IN  /\ classes' = r.cs
             /\ instances' = Append(instances,
                    [cls |-> c, exc |-> r.exc, about |-> r.about,
                     self_validated |-> r.self_validated,
                     checkRuns |-> r.checkRuns, bodyRan |-> r.bodyRan])
    /\ UNCHANGED lastGet
    /\ UNCHANGED callVars

(***************************************************************************)
(* ValidatingBaseClass.__getattribute__                                    *)
(***************************************************************************)
Got(i, name, kind, about) == [inst |-> i, name |-> name, kind |-> kind, about |-> about]

GetAttribute(cs, inst, i, name) ==
    LET mro == cs[inst.cls].mro
        method == Lookup(cs, mro, name)
        validator == Lookup(cs, mro, ValidatorName[name])
    IN  IF method.k = "absent" THEN Got(i, name, "AttributeError", name)
        ELSE IF /\ Callable(method)
                /\ inst.self_validated
                /\ Contains(Lookup(cs, mro, "validated_methods").items, name)
        THEN IF validator.k = "absent"
             THEN Got(i, name, "AttributeError", ValidatorName[name])
             ELSE Got(i, name, "wrapped", ValidatorName[name])
        ELSE Got(i, name, "raw", "")

GetAttr ==
    /\ \E i \in 1..Len(instances), name \in Methods :
         /\ instances[i].exc = "none"
         /\ lastGet' = GetAttribute(classes, instances[i], i, name)
    /\ UNCHANGED <<classes, instances>>
    /\ UNCHANGED callVars

(***************************************************************************)
(* validated_decorated.outer.inner: one call through the wrapper           *)
(***************************************************************************)
Types == {"int", "str"}
NoArg == "-"

\* inspect.signature(function): per parameter its annotation and whether it has a default;
\* a parameter without default never follows one with a default
Signatures ==
    {sig \in UNION {[1..n -> [ann : Types, dflt : BOOLEAN]] : n \in 1..MaxParams} :
        \A i \in 1..(Len(sig) - 1) : sig[i].dflt => sig[i + 1].dflt}

\* a call passes some arguments by position and some of the others by keyword
CallInputs ==
    {c \in [sig : Signatures, ret : Types,
            args : UNION {[1..k -> Types] : k \in 0..MaxParams},
            kwargs : UNION {[1..n -> Types \cup {NoArg}] : n \in 1..MaxParams},
            rejects : BOOLEAN, result : Types] :
        /\ Len(c.args) <= Len(c.sig)
        /\ Len(c.kwargs) = Len(c.sig)
        /\ \A i \in 1..Len(c.args) : c.kwargs[i] = NoArg}

NoCall == [sig |-> <<>>, ret |-> "int", args |-> <<>>, kwargs |-> <<>>,
           rejects |-> FALSE, result |-> "int"]

Pending == [kind |-> "pending", exc |-> "", about |-> 0, value |-> ""]
Raised(exc, about) == [kind |-> "raised", exc |-> exc, about |-> about, value |-> ""]
Returned(v) == [kind |-> "returned", exc |-> "", about |-> 0, value |-> v]

\* the value the call supplies for parameter i, NoArg when it supplies none
Supplied(c, i) == IF i <= Len(c.args) THEN c.args[i] ELSE c.kwargs[i]

\* signature.bind(*args, **kwargs): raises TypeError when a parameter without default
\* gets no value
BindFails(c) == \E i \in 1..Len(c.sig) : Supplied(c, i) = NoArg /\ ~c.sig[i].dflt

\* BoundArguments.arguments: the supplied arguments only, in parameter order
RECURSIVE BoundFrom(_, _)
BoundFrom(c, i) ==
    IF i > Len(c.sig) THEN <<>>
    ELSE IF Supplied(c, i) = NoArg THEN BoundFrom(c, i + 1)
    ELSE <<[p |-> i, v |-> Supplied(c, i)]>> \o BoundFrom(c, i + 1)

BindArguments(c) == BoundFrom(c, 1)

\* the loop over zip(signature.parameters.items(), bound_args.values())
FormatArgs(sig, bnd) ==
    [j \in 1..(IF Len(sig) < Len(bnd) THEN Len(sig) ELSE Len(bnd)) |->
        [p |-> j, v |-> bnd[j].v, ann |-> sig[j].ann]]

\* typeguard's check of one value against one annotation
Conforms(v, ann) == v = ann

\* typeguard check_argument_types: the first entry that does not conform, 0 when all do
FirstMismatch(fmt) ==
    LET bad == {j \in 1..Len(fmt) : ~Conforms(fmt[j].v, fmt[j].ann)}
    IN  IF bad = {} THEN 0 ELSE Min(bad)

Bind ==
    /\ pc = "bind"
    /\ IF BindFails(call)
       THEN /\ outcome' = Raised("TypeError", 0)
            /\ pc' = "done"
            /\ UNCHANGED bound
       ELSE /\ bound' = BindArguments(call)
            /\ pc' = "format"
            /\ UNCHANGED outcome
    /\ UNCHANGED <<call, formatted, trace>>
    /\ UNCHANGED heapVars

Format ==
    /\ pc = "format"
    /\ formatted' = FormatArgs(call.sig, bound)
    /\ pc' = "check_args"
    /\ UNCHANGED <<call, bound, trace, outcome>>
    /\ UNCHANGED heapVars

CheckArgumentTypes ==
    /\ pc = "check_args"
    /\ trace' = Append(trace, "check_argument_types")
    /\ IF FirstMismatch(formatted) # 0
       THEN /\ outcome' = Raised("TypeCheckError", formatted[FirstMismatch(formatted)].p)
            /\ pc' = "done"
       ELSE /\ pc' = "validate"
            /\ UNCHANGED outcome
    /\ UNCHANGED <<call, bound, formatted>>
    /\ UNCHANGED heapVars

\* RunValidator with the validator's exception caught by the wrapper
RunValidator_Swallowed ==
    /\ pc = "validate"
    /\ trace' = Append(trace, "validation_method")
    /\ pc' = "function"
    /\ UNCHANGED <<call, bound, formatted, outcome>>
    /\ UNCHANGED heapVars

RunValidator ==
    /\ pc = "validate"
    /\ trace' = Append(trace, "validation_method")
    /\ IF call.rejects
       THEN /\ outcome' = Raised("ValidationError", 0)
            /\ pc' = "done"
       ELSE /\ pc' = "function"
            /\ UNCHANGED outcome
    /\ UNCHANGED <<call, bound, formatted>>
    /\ UNCHANGED heapVars

RunFunction ==
    /\ pc = "function"
    /\ trace' = Append(trace, "function")
    /\ pc' = "check_return"
    /\ UNCHANGED <<call, bound, formatted, outcome>>
    /\ UNCHANGED heapVars

CheckReturnType ==
    /\ pc = "check_return"
    /\ trace' = Append(trace, "check_return_type")
    /\ outcome' = IF Conforms(call.result, call.ret)
                  THEN Returned(call.result)
                  ELSE Raised("TypeCheckError", -1)
    /\ pc' = "done"
    /\ UNCHANGED <<call, bound, formatted>>
    /\ UNCHANGED heapVars

(***************************************************************************)
(* Specifications                                                          *)
(***************************************************************************)
IdleCall ==
    /\ call = NoCall
    /\ pc = "idle"
    /\ bound = <<>>
    /\ formatted = <<>>
    /\ trace = <<>>
    /\ outcome = Pending

EmptyHeap ==
    /\ classes = <<ValidatingBaseClass>>
    /\ instances = <<>>
    /\ lastGet = Got(0, "", "none", "")

Init ==
    /\ EmptyHeap
    /\ IdleCall

Next ==
    \/ CreateClass
    \/ Instantiate
    \/ GetAttr

Spec == Init /\ [][Next]_vars

\* class creation and instantiation only
NextBuild ==
    \/ CreateClass
    \/ Instantiate

SpecBuild == Init /\ [][NextBuild]_vars

InitCall ==
    /\ EmptyHeap
    /\ call \in CallInputs
    /\ pc = "bind"
    /\ bound = <<>>
    /\ formatted = <<>>
    /\ trace = <<>>
    /\ outcome = Pending

NextCall ==
    \/ Bind
    \/ Format
    \/ CheckArgumentTypes
    \/ RunValidator
    \/ RunFunction
    \/ CheckReturnType

SpecCall == InitCall /\ [][NextCall]_vars

(***************************************************************************)
(* Properties                                                              *)
(***************************************************************************)
UserClasses == 2..Len(classes)
Resolved(c, n) == Lookup(classes, classes[c].mro, n)
ValidatedSet(c) == Range(Resolved(c, "validated_methods").items)
Deprecated == {"required_methods", "validated_methods"}

\* the call supplies, for some parameter, a value that does not conform to that
\* parameter's annotation
SomeArgumentMismatch ==
    \E i \in 1..Len(call.sig) :
        Supplied(call, i) # NoArg /\ ~Conforms(Supplied(call, i), call.sig[i].ann)
BoundOk == ~BindFails(call)
ArgTypeError == outcome.exc = "TypeCheckError" /\ outcome.about >= 1

\* C1: when the validator raises, the body of the wrapped method is never run and the
\* caller observes exactly the validator's exception; a call whose arguments the
\* validator rejects never reaches the body.
C1_ValidatorFailurePropagates ==
    /\ call.rejects => ~Contains(trace, "function")
    /\ (call.rejects /\ Contains(trace, "validation_method"))
          => (pc = "done" /\ outcome = Raised("ValidationError", 0))

C1_Witness ==
    /\ pc = "done"
    /\ call.rejects
    /\ Contains(trace, "validation_method")
    /\ outcome = Raised("ValidationError", 0)

\* C2: the validator is called before the argument type check, and a call that fails
\* both the validator and the argument type check ends with the validator's failure.
C2_PrerunBeforeTypeCheck ==
    /\ \A i, j \in 1..Len(trace) :
          (trace[i] = "check_argument_types" /\ trace[j] = "validation_method") => j < i
    /\ (pc = "done" /\ BoundOk /\ call.rejects /\ SomeArgumentMismatch)
          => outcome = Raised("ValidationError", 0)

\* C3: a call in which some supplied argument does not conform to the annotation of
\* its parameter raises the argument type error and the body does not run.
C3_TypeMismatchRejected ==
    (pc = "done" /\ BoundOk /\ SomeArgumentMismatch)
        => (ArgTypeError /\ ~Contains(trace, "function"))

\* C4: every supplied value is checked against the annotation of the parameter it is
\* bound to, so a call whose supplied arguments all conform is never rejected with an
\* argument type error.
C4_ConformingCallNotRejected ==
    /\ pc \in {"check_args", "validate", "function", "check_return", "done"} /\ BoundOk
          => \A j \in 1..Len(formatted) : formatted[j].ann = call.sig[bound[j].p].ann
    /\ (pc = "done" /\ BoundOk /\ ~SomeArgumentMismatch) => ~ArgTypeError

\* the method the class resolves for n carries the validated marker
MarkedMethod(c, n) == Resolved(c, n).k = "func" /\ Resolved(c, n).validated
MissingValidators(c) ==
    {ValidatorName[n] : n \in {m \in Methods :
        MarkedMethod(c, m) /\ Resolved(c, ValidatorName[m]).k = "absent"}}
NonCallableValidators(c) ==
    {ValidatorName[n] : n \in {m \in Methods :
        MarkedMethod(c, m) /\ Resolved(c, ValidatorName[m]).k = "int"}}

\* C5: instantiating a class with a validated method whose validate_<name> is missing
\* fails with NotImplementedError naming it, and with TypeError when validate_<name>
\* is not callable; the __init__ body does not run and the flag stays false.
C5_MissingValidatorFails ==
    \A i \in 1..Len(instances) :
        LET t == instances[i]
        IN  (t.cls \in UserClasses /\ classes[t.cls].abstractmethods = {}) =>
              /\ MissingValidators(t.cls) # {} =>
                    /\ t.exc = "NotImplementedError"
                    /\ t.about \in MissingValidators(t.cls)
                    /\ ~t.bodyRan
                    /\ ~t.self_validated
              /\ (MissingValidators(t.cls) = {} /\ NonCallableValidators(t.cls) # {}) =>
                    /\ t.exc = "TypeError"
                    /\ t.about \in NonCallableValidators(t.cls)
                    /\ ~t.bodyRan
                    /\ ~t.self_validated

\* the class resolves some method to one that still carries the abstract marker
StillAbstract(c) == \E n \in Methods : Resolved(c, n).abstract

C7_DeprecatedAttributeFails ==
    \A i \in 1..Len(instances) :
        (/\ instances[i].cls \in UserClasses
         /\ classes[instances[i].cls].declared \cap Deprecated # {})
            => instances[i].exc = "DeprecationWarning"

\* C8: once a class has been instantiated successfully, a later instantiation of the
\* same class does not run _validate_self.
C8_SelfCheckRunsOnce ==
    \A i, j \in 1..Len(instances) :
        (/\ i < j
         /\ instances[i].cls = instances[j].cls
         /\ instances[i].exc = "none")
            => instances[j].checkRuns = 0

\* the names marked with the validated marker in the class's own body
OwnMarked(c) == {n \in Methods : classes[c].attrs[n].validated}
MarkerStyle(c) ==
    \A k \in 1..Len(classes[c].mro) :
        classes[c].mro[k] \in UserClasses
            => classes[classes[c].mro[k]].declared \cap Deprecated = {}

\* C9: right after class construction, the validated-method set of a class is the
\* union of the names marked in its own body and the sets of its base classes.
C9_ValidatedSetIsUnion ==
    instances = <<>> =>
        \A c \in UserClasses :
            MarkerStyle(c) =>
                ValidatedSet(c) =
                    OwnMarked(c) \cup
                    UNION {ValidatedSet(classes[c].bases[k]) : k \in 1..Len(classes[c].bases)}

\* C10: no step changes the validated-method list of an existing class (stated for
\* the classes declared with the markers).
C10_ValidatedSetImmutable ==
    [][\A c \in UserClasses :
          MarkerStyle(c) =>
              classes'[c].attrs["validated_methods"] = classes[c].attrs["validated_methods"]]_vars

\* C11: after a self-check that completed and set the flag, every name left in the
\* instance's validated_methods list has a callable validate_<name>, and no attribute
\* read of a method on that instance fails because validate_<name> is missing.
C11_CheckedNamesHaveValidators ==
    /\ \A i \in 1..Len(instances) :
          (instances[i].exc = "none" /\ instances[i].self_validated) =>
              \A n \in ValidatedSet(instances[i].cls) :
                  Callable(Resolved(instances[i].cls, n)) =>
                      Callable(Resolved(instances[i].cls, ValidatorName[n]))
    /\ lastGet.kind = "AttributeError" => lastGet.about = lastGet.name

====
